---- MODULE Spec2Model ----
(***************************************************************************)
(* A model of the hybrid-product pipeline of src/App.tsx and of the JSON   *)
(* extractor of src/services/geminiService.ts.                             *)
(*                                                                         *)
(* A text is a sequence of one-character strings.  A nullable value of the *)
(* program (T | null) is the empty sequence (null) or a one-element        *)
(* sequence holding the value.                                             *)
(***************************************************************************)
EXTENDS Integers, Sequences, FiniteSets, TLC

VARIABLES
    text,             \* extractJson: the argument
    result,           \* extractJson: what the call did (not yet called, returned, threw)
    products,         \* App state: the product name inputs
    analyses,         \* App state: AnalysisResult[] | null
    allIdeas,         \* App state: HybridIdea[] | null
    thinkingProcess,  \* App state: string | null
    selectedIdeas,    \* App state: HybridIdea[]
    blueprints,       \* App state: Map<string, Blueprint>, a function on its keys
    step,             \* App state: AppStep
    error,            \* App state: string | null
    pc,               \* the await at which the running stage handler is suspended
    calls,            \* the operands of the Promise.all the handler awaits
    local,            \* the suspended handler's own variables and captured state
    uncaught          \* an exception has left a stage handler or a state updater

extractVars == <<text, result>>
appVars == <<products, analyses, allIdeas, thinkingProcess, selectedIdeas, blueprints,
             step, error, pc, calls, local, uncaught>>
vars == <<text, result, products, analyses, allIdeas, thinkingProcess, selectedIdeas,
          blueprints, step, error, pc, calls, local, uncaught>>

Null == <<>>
\* a value that is undefined is, like null, no value
Undefined == <<>>
Some(x) == <<x>>
IsNull(o) == o = <<>>
Val(o) == o[1]

(***************************************************************************)
(* extractJson (src/services/geminiService.ts:14-70)                       *)
(***************************************************************************)

NoJsonError == "No valid JSON object found in the response."
IncompleteJsonError == "Could not find a complete JSON object in the response."

Returned(s) == [kind |-> "returned", value |-> s, error |-> ""]
Threw(msg) == [kind |-> "threw", value |-> <<>>, error |-> msg]
NotCalled == [kind |-> "notCalled", value |-> <<>>, error |-> ""]

\* String.prototype.indexOf for a one-character needle: the 0-based index of
\* the first occurrence, -1 when there is none.
IndexOf(t, c) ==
    IF \E k \in 1..Len(t) : t[k] = c
    THEN (CHOOSE k \in 1..Len(t) : t[k] = c /\ \A j \in 1..(k - 1) : t[j] # c) - 1
    ELSE -1

\* text[i] for a 0-based index i
CharAt(t, i) == t[i + 1]

\* text.substring(from, to): the characters at 0-based indexes from..to-1
Substring(t, from, to) == SubSeq(t, from + 1, to)

Min(a, b) == IF a < b THEN a ELSE b

\* a start that prefers the brace to the bracket
StartPosBraceFirst(startIndex, startBracket) ==
    IF startIndex # -1 THEN startIndex ELSE startBracket

\* lines 22-29
StartPos(startIndex, startBracket) ==
    IF startIndex # -1 /\ startBracket # -1 THEN Min(startIndex, startBracket)
    ELSE IF startIndex # -1 THEN startIndex
    ELSE startBracket

\* line 32
CloseCharOf(openChar) == IF openChar = "{" THEN "}" ELSE "]"

\* a scanner that knows no escapes
IsEscapeCharNever(char) == FALSE

\* line 45: the character that sets the escape flag
IsEscapeChar(char) == char = "\\"

\* a scanner that does not track quoted strings
ToggleInStringNever(char, inString) == FALSE

\* lines 50-52: the string flag after reading char
ToggleInString(char, inString) == IF char = "\"" THEN ~inString ELSE inString

\* a scanner that lets either closing delimiter close the value
CountAnyClose(char, balance, openChar, closeChar) ==
    IF char = openChar THEN balance + 1
    ELSE IF char \in {"}", "]"} THEN balance - 1
    ELSE balance

\* lines 58-62: the balance after reading char outside a string
CountDelimiter(char, balance, openChar, closeChar) ==
    IF char = openChar THEN balance + 1
    ELSE IF char = closeChar THEN balance - 1
    ELSE balance

\* lines 37-69: the loop from index i on, and the throw after it
RECURSIVE ScanFrom(_, _, _, _, _, _, _, _)
ScanFrom(t, startPos, openChar, closeChar, i, balance, inString, escape) ==
    IF ~(i < Len(t)) THEN Threw(IncompleteJsonError)
    ELSE LET char == CharAt(t, i) IN
         IF escape
         THEN ScanFrom(t, startPos, openChar, closeChar, i + 1, balance, inString, FALSE)
         ELSE IF IsEscapeChar(char)
         THEN ScanFrom(t, startPos, openChar, closeChar, i + 1, balance, inString, TRUE)
         ELSE LET nowInString == ToggleInString(char, inString) IN
              IF nowInString
              THEN ScanFrom(t, startPos, openChar, closeChar, i + 1, balance, nowInString, FALSE)
              ELSE LET nowBalance == CountDelimiter(char, balance, openChar, closeChar) IN
                   IF nowBalance = 0
                   THEN Returned(Substring(t, startPos, i + 1))
                   ELSE ScanFrom(t, startPos, openChar, closeChar, i + 1, nowBalance, FALSE, FALSE)

\* an extractor without the check of lines 18-20: startPos is -1, text[-1] is
\* undefined, closeChar is "]" and substring(-1, i + 1) is substring(0, i + 1)
extractJsonUnchecked(t) ==
    LET startIndex == IndexOf(t, "{")
        startBracket == IndexOf(t, "[")
        startPos == StartPos(startIndex, startBracket)
    IN  IF startPos = -1
        THEN ScanFrom(t, 0, "", "]", 0, 1, FALSE, FALSE)
        ELSE ScanFrom(t, startPos, CharAt(t, startPos), CloseCharOf(CharAt(t, startPos)),
                      startPos + 1, 1, FALSE, FALSE)

\* lines 14-70
extractJson(t) ==
    LET startIndex == IndexOf(t, "{")
        startBracket == IndexOf(t, "[")
    IN  IF startIndex = -1 /\ startBracket = -1
        THEN Threw(NoJsonError)
        ELSE LET startPos == StartPos(startIndex, startBracket)
                 openChar == CharAt(t, startPos)
             IN  ScanFrom(t, startPos, openChar, CloseCharOf(openChar),
                          startPos + 1, 1, FALSE, FALSE)

(***************************************************************************)
(* JSON.parse, on the subset of JSON the inputs below are drawn from:      *)
(* strings with the escapes \" and \\, the number 1, arrays, objects, and  *)
(* spaces between tokens.  A parsed value is a record; an object's members *)
(* are a set of <<key, value>> pairs (a repeated key keeps its last value),*)
(* so that equality of parsed values is deep equality.                     *)
(***************************************************************************)

NoValue == [type |-> "none", chars |-> <<>>, items |-> <<>>, members |-> {}]
StringValue(cs) == [type |-> "string", chars |-> cs, items |-> <<>>, members |-> {}]
NumberValue(cs) == [type |-> "number", chars |-> cs, items |-> <<>>, members |-> {}]
ArrayValue(vs) == [type |-> "array", chars |-> <<>>, items |-> vs, members |-> {}]
ObjectValue(ms) == [type |-> "object", chars |-> <<>>, items |-> <<>>, members |-> ms]

ParseFail == [ok |-> FALSE, val |-> NoValue, pos |-> 0]
ParseOk(v, p) == [ok |-> TRUE, val |-> v, pos |-> p]

\* the first position at or after p that holds no space (Len(t) + 1 at the end)
RECURSIVE SkipSpaces(_, _)
SkipSpaces(t, p) ==
    IF p <= Len(t) /\ t[p] = " " THEN SkipSpaces(t, p + 1) ELSE p

\* the characters of a string literal, p being the position after its opening quote
RECURSIVE ParseStringBody(_, _, _)
ParseStringBody(t, p, acc) ==
    IF p > Len(t) THEN ParseFail
    ELSE IF t[p] = "\"" THEN ParseOk(StringValue(acc), p + 1)
    ELSE IF t[p] = "\\"
         THEN IF p + 1 <= Len(t) /\ t[p + 1] \in {"\"", "\\"}
              THEN ParseStringBody(t, p + 2, Append(acc, t[p + 1]))
              ELSE ParseFail
    ELSE ParseStringBody(t, p + 1, Append(acc, t[p]))

SetMember(ms, key, v) == {m \in ms : m[1] # key} \cup {<<key, v>>}

RECURSIVE ParseValue(_, _)
RECURSIVE ParseElements(_, _, _)
RECURSIVE ParseMembers(_, _, _)

\* the elements of an array after "[" or ",", up to and including "]"
ParseElements(t, p, acc) ==
    LET r == ParseValue(t, p) IN
    IF ~r.ok THEN ParseFail
    ELSE LET q == SkipSpaces(t, r.pos) IN
         IF q > Len(t) THEN ParseFail
         ELSE IF t[q] = "," THEN ParseElements(t, q + 1, Append(acc, r.val))
         ELSE IF t[q] = "]" THEN ParseOk(ArrayValue(Append(acc, r.val)), q + 1)
         ELSE ParseFail

\* the members of an object after "{" or ",", up to and including "}"
ParseMembers(t, p, acc) ==
    LET k == SkipSpaces(t, p) IN
    IF k > Len(t) \/ t[k] # "\"" THEN ParseFail
    ELSE LET key == ParseStringBody(t, k + 1, <<>>) IN
         IF ~key.ok THEN ParseFail
         ELSE LET c == SkipSpaces(t, key.pos) IN
              IF c > Len(t) \/ t[c] # ":" THEN ParseFail
              ELSE LET r == ParseValue(t, c + 1) IN
                   IF ~r.ok THEN ParseFail
                   ELSE LET q == SkipSpaces(t, r.pos)
                            ms == SetMember(acc, key.val.chars, r.val)
                        IN  IF q > Len(t) THEN ParseFail
                            ELSE IF t[q] = "," THEN ParseMembers(t, q + 1, ms)
                            ELSE IF t[q] = "}" THEN ParseOk(ObjectValue(ms), q + 1)
                            ELSE ParseFail

ParseValue(t, p) ==
    LET s == SkipSpaces(t, p) IN
    IF s > Len(t) THEN ParseFail
    ELSE IF t[s] = "\"" THEN ParseStringBody(t, s + 1, <<>>)
    ELSE IF t[s] = "1" THEN ParseOk(NumberValue(<<"1">>), s + 1)
    ELSE IF t[s] = "["
         THEN LET e == SkipSpaces(t, s + 1) IN
              IF e <= Len(t) /\ t[e] = "]" THEN ParseOk(ArrayValue(<<>>), e + 1)
              ELSE ParseElements(t, s + 1, <<>>)
    ELSE IF t[s] = "{"
         THEN LET e == SkipSpaces(t, s + 1) IN
              IF e <= Len(t) /\ t[e] = "}" THEN ParseOk(ObjectValue({}), e + 1)
              ELSE ParseMembers(t, s + 1, {})
    ELSE ParseFail

\* JSON.parse(t): the value, or a failure (a SyntaxError)
JsonParse(t) ==
    LET r == ParseValue(t, 1) IN
    IF r.ok /\ SkipSpaces(t, r.pos) > Len(t) THEN r ELSE ParseFail

IsJsonContainer(t) ==
    LET r == JsonParse(t) IN r.ok /\ r.val.type \in {"array", "object"}

(***************************************************************************)
(* The texts extractJson is applied to.                                    *)
(***************************************************************************)

\* the number of characters or escapes in a generated string literal
MaxStrTokens == 2
\* the length of the texts drawn from ScanAlphabet
MaxLen == 4

\* what a string literal is made of: a letter, the four delimiters, \" and \\
StrTokens == {<<"a">>, <<"{">>, <<"}">>, <<"[">>, <<"]">>, <<"\\", "\"">>, <<"\\", "\\">>}

RECURSIVE StrBodies(_)
StrBodies(n) ==
    IF n = 0 THEN {<<>>}
    ELSE StrBodies(n - 1) \cup {b \o tk : b \in StrBodies(n - 1), tk \in StrTokens}

Quoted(b) == <<"\"">> \o b \o <<"\"">>
ArrayOf(v) == <<"[">> \o v \o <<"]">>
ArrayOf2(v, w) == <<"[">> \o v \o <<",">> \o w \o <<"]">>
ObjectOf(k, v) == <<"{">> \o Quoted(k) \o <<":">> \o v \o <<"}">>
ObjectOf2(k, v, l, w) ==
    <<"{">> \o Quoted(k) \o <<":">> \o v \o <<",">> \o Quoted(l) \o <<":">> \o w \o <<"}">>

StringLiterals == {Quoted(b) : b \in StrBodies(MaxStrTokens)}
Leaves == {<<"1">>} \cup StringLiterals
KeyBodies == {<<"a">>, <<"}">>, <<"\\", "\"">>}
\* a few values to put side by side or to nest
FewLeaves == {<<"1">>, Quoted(<<"]">>), Quoted(<<"\\", "\"", "}">>)}

FlatContainers ==
    {<<"[", "]">>, <<"{", "}">>}
    \cup {ArrayOf(v) : v \in Leaves}
    \cup {ObjectOf(k, v) : k \in KeyBodies, v \in Leaves}
    \cup {ArrayOf2(v, w) : v \in FewLeaves, w \in FewLeaves}
    \cup {ObjectOf2(<<"a">>, v, k, w) : v \in FewLeaves, k \in KeyBodies, w \in FewLeaves}

FewContainers ==
    {<<"[", "]">>, <<"{", "}">>}
    \cup {ArrayOf(v) : v \in FewLeaves}
    \cup {ObjectOf(<<"a">>, v) : v \in FewLeaves}

NestedContainers ==
    {ArrayOf(c) : c \in FewContainers}
    \cup {ObjectOf(<<"a">>, c) : c \in FewContainers}
    \cup {ArrayOf2(c, d) : c \in FewContainers, d \in {<<"{", "}">>, <<"1">>}}
    \cup {ArrayOf(ArrayOf(c)) : c \in FewContainers}
    \cup {ObjectOf(<<"a">>, ArrayOf(c)) : c \in FewContainers}

JsonTexts == FlatContainers \cup NestedContainers

\* what precedes and follows an embedded value: nothing, prose, a markdown
\* fence (~~~), stray closing and opening delimiters, quotes and backslashes
Contexts ==
    { <<<<>>, <<>>>>,
      <<<<"a", " ">>, <<" ", "a">>>>,
      <<<<"~", "~", "~">>, <<"~", "~", "~">>>>,
      <<<<"a", "\"">>, <<"}">>>>,
      <<<<"]", " ">>, <<"]", "a">>>>,
      <<<<"}", "\\">>, <<"{">>>>,
      <<<<>>, <<"[", "a">>>>,
      <<<<"a">>, <<"\"", "\\">>>>,
      <<<<"[", " ">>, <<>>>>,
      <<<<"{">>, <<" ">>>>,
      <<<<"[", "a", "]", " ">>, <<>>>>,
      <<<<"a", "{", "a", "}">>, <<"a">>>> }

EmbeddedTexts == {c[1] \o j \o c[2] : c \in Contexts, j \in JsonTexts}

ScanAlphabet == {"{", "}", "[", "]", "\"", "\\", "a"}

RECURSIVE TextsUpTo(_)
TextsUpTo(n) ==
    IF n = 0 THEN {<<>>}
    ELSE TextsUpTo(n - 1) \cup {Append(t, c) : t \in TextsUpTo(n - 1), c \in ScanAlphabet}

ShortTexts == TextsUpTo(MaxLen)

Texts == EmbeddedTexts \cup ShortTexts

(***************************************************************************)
(* The pipeline of src/App.tsx: state, model calls and handlers.           *)
(***************************************************************************)

\* AppStep (src/types.ts:51-59)
INITIAL == 0
ANALYZING == 1
ANALYZED == 2
GENERATING_IDEAS == 3
IDEAS_GENERATED == 4
GENERATING_BLUEPRINT == 5
BLUEPRINT_GENERATED == 6

\* the number of product inputs the entry form lets the user have
\* (products.length < 5 in handleAddProduct, scaled down)
MaxProducts == 3
\* the fewest product inputs and the fewest valid names
MinProducts == 2
\* the number of accumulated ideas up to which more are asked for
MaxIdeas == 3

\* what the user types into a product input: nothing, or a name after a space
ProductInputs == {<<>>, <<" ", "b">>}
\* the productName a model response carries
ResponseNames == {<<"b">>, <<"z">>}

Ideas ==
    { [ideaName |-> "Aero", whatItIs |-> "drone"],
      [ideaName |-> "Aero", whatItIs |-> "kite"],
      [ideaName |-> "Brush", whatItIs |-> "robot"] }

\* the text paraphraseText resolves to, given the narratives of n ideation
\* responses: the text is opaque, what is kept of it is what it was made from
Paraphrased(n) == n
\* the combined process of App.tsx:253 holds one narrative more than the log
CombinedProcess(log) == (IF IsNull(log) THEN 0 ELSE Val(log)) + 1

\* String.prototype.trim
RECURSIVE TrimStart(_)
TrimStart(str) ==
    IF Len(str) > 0 /\ Head(str) = " " THEN TrimStart(Tail(str)) ELSE str
RECURSIVE TrimEnd(_)
TrimEnd(str) ==
    IF Len(str) > 0 /\ str[Len(str)] = " " THEN TrimEnd(SubSeq(str, 1, Len(str) - 1)) ELSE str
Trim(str) == TrimEnd(TrimStart(str))

Truthy(str) == str # <<>>

\* App.tsx:181 (Array.prototype.filter is SelectSeq)
ValidProducts(ps) ==
    LET trimmed == [i \in 1..Len(ps) |-> Trim(ps[i])] IN SelectSeq(trimmed, Truthy)

\* a page on which no step counts as loading
IsLoadingNever(s) == FALSE

\* App.tsx:105-109
IsLoading(s) == s \in {ANALYZING, GENERATING_IDEAS, GENERATING_BLUEPRINT}

\* the messages the error state can hold: <<text, interpolated detail>>
ValidationMessage == <<"Please enter at least two product names.", <<>>>>
UnknownErrorMessage == <<"An unknown error occurred", <<>>>>
\* geminiService.ts:351
AnalyzeFailedMessage(productName) == <<"Failed to analyze {productName}. Please check the console for details.", productName>>
\* App.tsx:240, for a rejection value that has no message property
BlueprintFailedMessage == <<"Failed to generate one or more blueprints. undefined", <<>>>>
TransportMessage == <<"transport failure", <<>>>>

\* what a model call can reject with: an Error, some other value, null or undefined
ErrorObject(msg) == [isError |-> TRUE, isNullish |-> FALSE, message |-> msg]
OtherObject == [isError |-> FALSE, isNullish |-> FALSE, message |-> <<>>]
Nullish == [isError |-> FALSE, isNullish |-> TRUE, message |-> <<>>]
Rejections == {ErrorObject(TransportMessage), OtherObject, Nullish}

\* App.tsx:196, 214, 261
CatchMessage(err) == IF err.isError THEN err.message ELSE UnknownErrorMessage

\* App.tsx:240: reading err.message throws when err is null or undefined
BlueprintCatchThrows(err) == ~err.isError /\ err.isNullish
BlueprintCatchMessage(err) == IF err.isError THEN err.message ELSE BlueprintFailedMessage

\* the parsed response of the analyze call number i
ParsedAnalysis(i, name) == [productName |-> name, body |-> i]
\* geminiService.ts:342: { ...parsed, productName }
MergeProductName(parsed, productName) == [parsed EXCEPT !.productName = productName]

\* the blueprint the call for an idea resolves to
BlueprintFor(idea) == [forIdea |-> idea]

Pending(arg) == [arg |-> arg, value |-> Null]
Settled(c) == ~IsNull(c.value)
AllSettled(cs) == \A i \in 1..Len(cs) : Settled(cs[i])

\* a join that hands the values over last operand first
JoinReversed(cs) == [i \in 1..Len(cs) |-> Val(cs[Len(cs) + 1 - i].value)]

\* Promise.all: the values in the order of the operands
JoinValues(cs) == [i \in 1..Len(cs) |-> Val(cs[i].value)]

NoLocal == [previousStep |-> INITIAL, ideas |-> Undefined, thinkingProcess |-> Null,
            blueprints |-> <<>>]

EmptyMap == <<>>
\* Map.prototype.set
MapSet(m, key, v) == (key :> v) @@ m

\* App.tsx:229-232
RECURSIVE StoreBlueprints(_, _)
StoreBlueprints(m, results) ==
    IF results = <<>> THEN m
    ELSE StoreBlueprints(MapSet(m, Head(results).ideaName, Head(results).blueprint),
                         Tail(results))

\* App.tsx:226: .then(bp => ({ ideaName: idea.ideaName, blueprint: bp }))
KeyedBlueprint(idea, bp) == [ideaName |-> idea.ideaName, blueprint |-> bp]

\* an updater keyed by the whole idea instead of its name
ToggledSelectionByValue(prev, idea) ==
    LET Other(i) == i # idea IN
    IF \E k \in 1..Len(prev) : prev[k] = idea
    THEN SelectSeq(prev, Other)
    ELSE Append(prev, idea)

\* App.tsx:269-274
ToggledSelection(prev, idea) ==
    LET Other(i) == i.ideaName # idea.ideaName IN
    IF \E k \in 1..Len(prev) : prev[k].ideaName = idea.ideaName
    THEN SelectSeq(prev, Other)
    ELSE Append(prev, idea)

\* an update that replaces the list by the new batch
ReplaceIdeas(prev, ideas) == ideas

\* App.tsx:256
AppendIdeas(prev, ideas) == (IF IsNull(prev) THEN <<>> ELSE Val(prev)) \o ideas

InitApp ==
    /\ products = <<<<>>, <<>>>>
    /\ analyses = Null
    /\ allIdeas = Null
    /\ thinkingProcess = Null
    /\ selectedIdeas = <<>>
    /\ blueprints = EmptyMap
    /\ step = INITIAL
    /\ error = Null
    /\ pc = "idle"
    /\ calls = <<>>
    /\ local = NoLocal
    /\ uncaught = FALSE

\* the product form is rendered and its controls are enabled (App.tsx:501, 518, 525, 540)
ProductFormEnabled == step <= ANALYZING /\ ~IsLoading(step)

\* App.tsx:160-164
handleAddProduct ==
    /\ ProductFormEnabled
    /\ Len(products) < MaxProducts
    /\ products' = Append(products, <<>>)
    /\ UNCHANGED <<analyses, allIdeas, thinkingProcess, selectedIdeas, blueprints,
                   step, error, pc, calls, local, uncaught>>

\* App.tsx:166-172
handleRemoveProduct(index) ==
    /\ ProductFormEnabled
    /\ Len(products) > MinProducts
    /\ products' = SubSeq(products, 1, index - 1) \o SubSeq(products, index + 1, Len(products))
    /\ UNCHANGED <<analyses, allIdeas, thinkingProcess, selectedIdeas, blueprints,
                   step, error, pc, calls, local, uncaught>>

\* App.tsx:174-178
handleProductChange(index, value) ==
    /\ ProductFormEnabled
    /\ products' = [products EXCEPT ![index] = value]
    /\ UNCHANGED <<analyses, allIdeas, thinkingProcess, selectedIdeas, blueprints,
                   step, error, pc, calls, local, uncaught>>

\* the Analyze Products button is rendered and enabled (App.tsx:501, 548)
AnalyzeEnabled ==
    /\ step <= ANALYZING
    /\ ~IsLoading(step)
    /\ ~(Len(SelectSeq(products, LAMBDA q : Truthy(Trim(q)))) < MinProducts)

\* a handler that starts the analysis whatever the number of names
AnalyzeProductsInvokedUnchecked ==
    /\ LET validProducts == ValidProducts(products) IN
       /\ error' = Null
       /\ step' = ANALYZING
       /\ pc' = "analyze"
       /\ calls' = [i \in 1..Len(validProducts) |-> Pending(validProducts[i])]
       /\ local' = NoLocal
    /\ UNCHANGED <<products, analyses, allIdeas, thinkingProcess, selectedIdeas,
                   blueprints, uncaught>>

\* App.tsx:180-190: handleAnalyzeProducts is called, up to the await
AnalyzeProductsInvoked ==
    /\ LET validProducts == ValidProducts(products) IN
       IF Len(validProducts) < MinProducts
       THEN /\ error' = Some(ValidationMessage)
            /\ UNCHANGED <<step, pc, calls, local>>
       ELSE /\ error' = Null
            /\ step' = ANALYZING
            /\ pc' = "analyze"
            /\ calls' = [i \in 1..Len(validProducts) |-> Pending(validProducts[i])]
            /\ local' = NoLocal
    /\ UNCHANGED <<products, analyses, allIdeas, thinkingProcess, selectedIdeas,
                   blueprints, uncaught>>

\* a click on the Analyze Products button (App.tsx:548)
handleAnalyzeProducts ==
    /\ AnalyzeEnabled
    /\ AnalyzeProductsInvoked

\* analyzeProduct number i resolves to value; when it is the last one,
\* Promise.all resolves and the handler goes on (App.tsx:192-194)
AnalyzeResolvesWith(i, value) ==
    /\ pc = "analyze"
    /\ i \in 1..Len(calls)
    /\ ~Settled(calls[i])
    /\ LET settled == [calls EXCEPT ![i].value = Some(value)]
       IN  IF AllSettled(settled)
           THEN /\ analyses' = Some(JoinValues(settled))
                /\ step' = ANALYZED
                /\ pc' = "idle"
                /\ calls' = <<>>
           ELSE /\ calls' = settled
                /\ UNCHANGED <<analyses, step, pc>>
    /\ UNCHANGED <<products, allIdeas, thinkingProcess, selectedIdeas, blueprints,
                   error, local, uncaught>>

\* analyzeProduct number i resolves on a response that carries responseName
\* (geminiService.ts:336-342)
AnalyzeResolves(i, responseName) ==
    /\ i \in 1..Len(calls)
    /\ AnalyzeResolvesWith(i, MergeProductName(ParsedAnalysis(i, responseName), calls[i].arg))

\* a catch that keeps the analyses of the calls that had resolved
AnalyzeRejectsKeepingSettled(i) ==
    /\ pc = "analyze"
    /\ i \in 1..Len(calls)
    /\ ~Settled(calls[i])
    /\ analyses' = Some(JoinValues(SelectSeq(calls, Settled)))
    /\ error' = Some(CatchMessage(ErrorObject(AnalyzeFailedMessage(calls[i].arg))))
    /\ step' = INITIAL
    /\ pc' = "idle"
    /\ calls' = <<>>
    /\ UNCHANGED <<products, allIdeas, thinkingProcess, selectedIdeas,
                   blueprints, local, uncaught>>

\* a handler that answers a rejection by issuing the calls of the batch again
AnalyzeRejectsRetrying(i, err) ==
    /\ pc = "analyze"
    /\ i \in 1..Len(calls)
    /\ ~Settled(calls[i])
    /\ calls' = [k \in 1..Len(calls) |-> Pending(calls[k].arg)]
    /\ UNCHANGED <<products, analyses, allIdeas, thinkingProcess, selectedIdeas,
                   blueprints, step, error, pc, local, uncaught>>

\* analyzeProduct number i rejects with err; Promise.all rejects and the
\* handler's catch runs (App.tsx:195-198).  What the other calls do later is
\* ignored.
AnalyzeRejectsWith(i, err) ==
    /\ pc = "analyze"
    /\ i \in 1..Len(calls)
    /\ ~Settled(calls[i])
    /\ error' = Some(CatchMessage(err))
    /\ step' = INITIAL
    /\ pc' = "idle"
    /\ calls' = <<>>
    /\ UNCHANGED <<products, analyses, allIdeas, thinkingProcess, selectedIdeas,
                   blueprints, local, uncaught>>

\* analyzeProduct number i rejects, always with the Error of geminiService.ts:351
AnalyzeRejects(i) ==
    /\ i \in 1..Len(calls)
    /\ AnalyzeRejectsWith(i, ErrorObject(AnalyzeFailedMessage(calls[i].arg)))

\* the idea lists generateHybridIdeas can resolve to: one idea or two
Batches == {<<i>> : i \in Ideas} \cup {<<i, j>> : i \in Ideas, j \in Ideas}

\* the Generate 3 Hybrid Ideas button is rendered and enabled (App.tsx:562, 574-576)
GenerateIdeasEnabled ==
    /\ step >= ANALYZED /\ ~IsNull(analyses)
    /\ step = ANALYZED
    /\ ~IsLoading(step)

\* App.tsx:202-207, up to the first await
handleGenerateIdeas ==
    /\ GenerateIdeasEnabled
    /\ ~(IsNull(analyses) \/ Len(Val(analyses)) < MinProducts)
    /\ error' = Null
    /\ step' = GENERATING_IDEAS
    /\ pc' = "ideas:ideation"
    /\ local' = NoLocal
    /\ UNCHANGED <<products, analyses, allIdeas, thinkingProcess, selectedIdeas,
                   blueprints, calls, uncaught>>

\* the ideas section is rendered (App.tsx:585)
IdeasSectionRendered ==
    step >= IDEAS_GENERATED \/ (step = GENERATING_IDEAS /\ ~IsNull(allIdeas))

\* the idea cards are rendered (App.tsx:594)
IdeasRendered == IdeasSectionRendered /\ ~IsNull(allIdeas)

\* the footer of the ideas section (App.tsx:610)
IdeasFooterRendered == IdeasSectionRendered /\ step = IDEAS_GENERATED

\* App.tsx:246-252, up to the first await
handleGenerateMoreIdeas ==
    /\ IdeasFooterRendered
    /\ ~IsLoading(step)
    /\ ~(IsNull(analyses) \/ IsNull(allIdeas))
    /\ Len(Val(allIdeas)) < MaxIdeas
    /\ error' = Null
    /\ local' = [NoLocal EXCEPT !.previousStep = step, !.thinkingProcess = thinkingProcess]
    /\ step' = GENERATING_IDEAS
    /\ pc' = "more:ideation"
    /\ UNCHANGED <<products, analyses, allIdeas, thinkingProcess, selectedIdeas,
                   blueprints, calls, uncaught>>

\* a catch that always goes back to the step the handler remembers
StepAfterIdeasFailureRemembered == local.previousStep

\* a catch that always goes back to ANALYZED
StepAfterIdeasFailureAnalyzed == ANALYZED

\* where a failed idea generation goes back to (App.tsx:216, 263)
StepAfterIdeasFailure == IF pc \in {"ideas:ideation", "ideas:paraphrase"}
                         THEN ANALYZED ELSE local.previousStep

\* a handler that stores the ideas as soon as generateHybridIdeas resolves
IdeationResolvesStoring(ideas) ==
    /\ pc \in {"ideas:ideation", "more:ideation"}
    /\ (pc = "more:ideation" /\ ~IsNull(ideas)) =>
          Len(Val(allIdeas)) + Len(Val(ideas)) <= MaxIdeas
    /\ allIdeas' = IF IsNull(ideas) THEN allIdeas ELSE Some(AppendIdeas(allIdeas, Val(ideas)))
    /\ local' = [local EXCEPT !.ideas = ideas]
    /\ pc' = IF pc = "ideas:ideation" THEN "ideas:paraphrase" ELSE "more:paraphrase"
    /\ UNCHANGED <<products, analyses, thinkingProcess, selectedIdeas,
                   blueprints, step, error, calls, uncaught>>

\* generateHybridIdeas resolves (geminiService.ts:404-406); the handler calls
\* paraphraseText and awaits it (App.tsx:207-208, 252-254).  ideas is the
\* destructured property of the result: the array, or undefined.
IdeationResolves(ideas) ==
    /\ pc \in {"ideas:ideation", "more:ideation"}
    /\ (pc = "more:ideation" /\ ~IsNull(ideas)) =>
          Len(Val(allIdeas)) + Len(Val(ideas)) <= MaxIdeas
    /\ local' = [local EXCEPT !.ideas = ideas]
    /\ pc' = IF pc = "ideas:ideation" THEN "ideas:paraphrase" ELSE "more:paraphrase"
    /\ UNCHANGED <<products, analyses, allIdeas, thinkingProcess, selectedIdeas,
                   blueprints, step, error, calls, uncaught>>

\* generateHybridIdeas or paraphraseText rejects: the catch of App.tsx:213-217, 259-264
IdeasCallRejects(err) ==
    /\ pc \in {"ideas:ideation", "more:ideation", "ideas:paraphrase", "more:paraphrase"}
    /\ error' = Some(CatchMessage(err))
    /\ step' = StepAfterIdeasFailure
    /\ pc' = "idle"
    /\ local' = NoLocal
    /\ UNCHANGED <<products, analyses, allIdeas, thinkingProcess, selectedIdeas,
                   blueprints, calls, uncaught>>

\* paraphraseText resolves (geminiService.ts:538); App.tsx:209-212, 256-258.
\* setAllIdeas(ideas) stores undefined as it stores an array; the updater of
\* line 256 spreads ideas, which throws on undefined when React runs it to
\* render, outside the handler's try: the queued updates are lost with it.
ParaphraseResolves ==
    /\ pc \in {"ideas:paraphrase", "more:paraphrase"}
    /\ IF pc = "ideas:paraphrase"
       THEN /\ allIdeas' = local.ideas
            /\ thinkingProcess' = Some(Paraphrased(CombinedProcess(Null)))
            /\ step' = IDEAS_GENERATED
            /\ UNCHANGED uncaught
       ELSE IF IsNull(local.ideas)
       THEN /\ uncaught' = TRUE
            /\ UNCHANGED <<allIdeas, thinkingProcess, step>>
       ELSE /\ allIdeas' = Some(AppendIdeas(allIdeas, Val(local.ideas)))
            /\ thinkingProcess' = Some(Paraphrased(CombinedProcess(local.thinkingProcess)))
            /\ step' = local.previousStep
            /\ UNCHANGED uncaught
    /\ pc' = "idle"
    /\ local' = NoLocal
    /\ UNCHANGED <<products, analyses, selectedIdeas, blueprints, error, calls>>

\* a Generate Blueprints button that stays once the blueprints are shown
GenerateBlueprintsEnabledLater ==
    /\ IdeasRendered /\ step >= IDEAS_GENERATED
    /\ ~(IsLoading(step) \/ Len(selectedIdeas) = 0)

\* the Generate Blueprints button is rendered and enabled (App.tsx:610-613)
GenerateBlueprintsEnabled ==
    /\ IdeasFooterRendered
    /\ ~(IsLoading(step) \/ Len(selectedIdeas) = 0)

\* App.tsx:220-226, up to the await
handleGenerateBlueprints ==
    /\ GenerateBlueprintsEnabled
    /\ ~(Len(selectedIdeas) = 0)
    /\ error' = Null
    /\ step' = GENERATING_BLUEPRINT
    /\ pc' = "blueprints"
    /\ calls' = [i \in 1..Len(selectedIdeas) |-> Pending(selectedIdeas[i])]
    /\ local' = [NoLocal EXCEPT !.blueprints = blueprints]
    /\ UNCHANGED <<products, analyses, allIdeas, thinkingProcess, selectedIdeas,
                   blueprints, uncaught>>

\* a continuation that stores the blueprints of the ideas still selected
\* when the batch completes
BlueprintResolvesWithSelection(i, bp) ==
    /\ pc = "blueprints"
    /\ i \in 1..Len(calls)
    /\ ~Settled(calls[i])
    /\ LET value == KeyedBlueprint(calls[i].arg, bp)
           settled == [calls EXCEPT ![i].value = Some(value)]
           StillSelected(r) ==
               \E k \in 1..Len(selectedIdeas) : selectedIdeas[k].ideaName = r.ideaName
       IN  IF AllSettled(settled)
           THEN /\ blueprints' = StoreBlueprints(local.blueprints,
                                                 SelectSeq(JoinValues(settled), StillSelected))
                /\ step' = BLUEPRINT_GENERATED
                /\ pc' = "idle"
                /\ calls' = <<>>
                /\ local' = NoLocal
           ELSE /\ calls' = settled
                /\ UNCHANGED <<blueprints, step, pc, local>>
    /\ UNCHANGED <<products, analyses, allIdeas, thinkingProcess, selectedIdeas,
                   error, uncaught>>

\* generateBlueprint number i resolves to bp; when it is the last one,
\* Promise.all resolves and the handler goes on (App.tsx:229-237)
BlueprintResolvesWith(i, bp) ==
    /\ pc = "blueprints"
    /\ i \in 1..Len(calls)
    /\ ~Settled(calls[i])
    /\ LET value == KeyedBlueprint(calls[i].arg, bp)
           settled == [calls EXCEPT ![i].value = Some(value)]
       IN  IF AllSettled(settled)
           THEN /\ blueprints' = StoreBlueprints(local.blueprints, JoinValues(settled))
                /\ step' = BLUEPRINT_GENERATED
                /\ pc' = "idle"
                /\ calls' = <<>>
                /\ local' = NoLocal
           ELSE /\ calls' = settled
                /\ UNCHANGED <<blueprints, step, pc, local>>
    /\ UNCHANGED <<products, analyses, allIdeas, thinkingProcess, selectedIdeas,
                   error, uncaught>>

\* generateBlueprint number i resolves (geminiService.ts:514-516)
BlueprintResolves(i) ==
    /\ i \in 1..Len(calls)
    /\ BlueprintResolvesWith(i, BlueprintFor(calls[i].arg))

\* generateBlueprint number i rejects; Promise.all rejects and the catch of
\* App.tsx:239-243 runs, which itself throws on a null or undefined value
BlueprintRejects(i, err) ==
    /\ pc = "blueprints"
    /\ i \in 1..Len(calls)
    /\ ~Settled(calls[i])
    /\ IF BlueprintCatchThrows(err)
       THEN /\ uncaught' = TRUE
            /\ UNCHANGED <<error, step>>
       ELSE /\ error' = Some(BlueprintCatchMessage(err))
            /\ step' = IDEAS_GENERATED
            /\ UNCHANGED uncaught
    /\ pc' = "idle"
    /\ calls' = <<>>
    /\ local' = NoLocal
    /\ UNCHANGED <<products, analyses, allIdeas, thinkingProcess, selectedIdeas, blueprints>>

\* a click on a card that also dismisses the error
handleToggleIdeaSelectionClearingError(k) ==
    /\ IdeasRendered
    /\ k \in 1..Len(Val(allIdeas))
    /\ selectedIdeas' = ToggledSelection(selectedIdeas, Val(allIdeas)[k])
    /\ error' = Null
    /\ UNCHANGED <<products, analyses, allIdeas, thinkingProcess, blueprints, step,
                   pc, calls, local, uncaught>>

\* a click on the card of the idea at position k (App.tsx:267-276, 601)
handleToggleIdeaSelection(k) ==
    /\ IdeasRendered
    /\ k \in 1..Len(Val(allIdeas))
    /\ selectedIdeas' = ToggledSelection(selectedIdeas, Val(allIdeas)[k])
    /\ UNCHANGED <<products, analyses, allIdeas, thinkingProcess, blueprints, step,
                   error, pc, calls, local, uncaught>>

\* the list of blueprints and its footer are rendered (App.tsx:629)
BlueprintsRendered == step >= BLUEPRINT_GENERATED /\ Cardinality(DOMAIN blueprints) > 0

\* the blueprints that are displayed (App.tsx:629-639)
DisplayedBlueprints == IF BlueprintsRendered THEN DOMAIN blueprints ELSE {}

\* a Start Over button is rendered and enabled (App.tsx:620-622, 648-651)
StartOverEnabled ==
    /\ IdeasFooterRendered \/ BlueprintsRendered
    /\ ~IsLoading(step)

\* a Start Over that forgets the selection
handleStartOverKeepingSelection ==
    /\ StartOverEnabled
    /\ products' = <<<<>>, <<>>>>
    /\ analyses' = Null
    /\ allIdeas' = Null
    /\ thinkingProcess' = Null
    /\ blueprints' = EmptyMap
    /\ step' = INITIAL
    /\ error' = Null
    /\ UNCHANGED <<selectedIdeas, pc, calls, local, uncaught>>

\* a Start Over that keeps the blueprints
handleStartOverKeepingBlueprints ==
    /\ StartOverEnabled
    /\ products' = <<<<>>, <<>>>>
    /\ analyses' = Null
    /\ allIdeas' = Null
    /\ thinkingProcess' = Null
    /\ selectedIdeas' = <<>>
    /\ step' = INITIAL
    /\ error' = Null
    /\ UNCHANGED <<blueprints, pc, calls, local, uncaught>>

\* App.tsx:314-326
handleStartOver ==
    /\ StartOverEnabled
    /\ products' = <<<<>>, <<>>>>
    /\ analyses' = Null
    /\ allIdeas' = Null
    /\ thinkingProcess' = Null
    /\ selectedIdeas' = <<>>
    /\ blueprints' = EmptyMap
    /\ step' = INITIAL
    /\ error' = Null
    /\ UNCHANGED <<pc, calls, local, uncaught>>

Init ==
    /\ InitApp
    /\ text = <<>>
    /\ result = NotCalled

Next ==
    \/ handleAddProduct /\ UNCHANGED extractVars
    \/ \E index \in 1..MaxProducts :
          index <= Len(products) /\ handleRemoveProduct(index) /\ UNCHANGED extractVars
    \/ \E index \in 1..MaxProducts, value \in ProductInputs :
          index <= Len(products) /\ handleProductChange(index, value) /\ UNCHANGED extractVars
    \/ handleAnalyzeProducts /\ UNCHANGED extractVars
    \/ \E i \in 1..MaxProducts, name \in ResponseNames :
          AnalyzeResolves(i, name) /\ UNCHANGED extractVars
    \/ \E i \in 1..MaxProducts : AnalyzeRejects(i) /\ UNCHANGED extractVars
    \/ handleGenerateIdeas /\ UNCHANGED extractVars
    \/ handleGenerateMoreIdeas /\ UNCHANGED extractVars
    \/ \E ideas \in Batches : IdeationResolves(Some(ideas)) /\ UNCHANGED extractVars
    \/ \E err \in Rejections : IdeasCallRejects(err) /\ UNCHANGED extractVars
    \/ ParaphraseResolves /\ UNCHANGED extractVars
    \/ handleGenerateBlueprints /\ UNCHANGED extractVars
    \/ \E i \in 1..Cardinality(Ideas) : BlueprintResolves(i) /\ UNCHANGED extractVars
    \/ \E i \in 1..Cardinality(Ideas), err \in Rejections :
          BlueprintRejects(i, err) /\ UNCHANGED extractVars
    \/ \E k \in 1..MaxIdeas : handleToggleIdeaSelection(k) /\ UNCHANGED extractVars
    \/ handleStartOver /\ UNCHANGED extractVars

Spec == Init /\ [][Next]_vars

(***************************************************************************)
(* One call of extractJson on one text.                                    *)
(***************************************************************************)

InitExtract ==
    /\ text \in Texts
    /\ result = NotCalled
    /\ InitApp

CallExtractJson ==
    /\ result = NotCalled
    /\ result' = extractJson(text)
    /\ UNCHANGED text

NextExtract == CallExtractJson /\ UNCHANGED appVars

SpecExtract == InitExtract /\ [][NextExtract]_vars

(***************************************************************************)
(* What the claims about extractJson speak of, stated without the scanner. *)
(***************************************************************************)

OpenDelimiters == {"{", "["}
CloseDelimiters == {"}", "]"}

IsOdd(n) == n % 2 = 1

\* the 1-based position of the first opening delimiter, 0 when there is none
FirstDelimiter(t) ==
    IF \E k \in 1..Len(t) : t[k] \in OpenDelimiters
    THEN CHOOSE k \in 1..Len(t) :
            t[k] \in OpenDelimiters /\ \A j \in 1..(k - 1) : t[j] \notin OpenDelimiters
    ELSE 0

\* the length of the run of backslashes that ends right before position p and
\* lies after position from
BackslashRun(t, from, p) ==
    LET starts == {b \in (from + 1)..p : \A q \in b..(p - 1) : t[q] = "\\"}
    IN  p - (CHOOSE b \in starts : \A c \in starts : b <= c)

\* position p is made inert by a backslash before it
Escaped(t, from, p) == IsOdd(BackslashRun(t, from, p))

\* an unescaped quote
IsQuoteAt(t, from, q) == t[q] = "\"" /\ ~Escaped(t, from, q) 

\* position p lies inside a quoted string that was opened after position from
InsideString(t, from, p) ==
    IsOdd(Cardinality({q \in (from + 1)..(p - 1) : IsQuoteAt(t, from, q)}))

\* position p holds a character that counts as a delimiter
Counted(t, from, p) == ~Escaped(t, from, p) /\ ~InsideString(t, from, p)

\* the depth at position p, the delimiter at position from having opened depth 1
Depth(t, from, p, opens, closes) ==
    1 + Cardinality({q \in (from + 1)..p : Counted(t, from, q) /\ t[q] \in opens})
      - Cardinality({q \in (from + 1)..p : Counted(t, from, q) /\ t[q] \in closes})

\* the depth over the given delimiters never returns to zero before the end
NeverBalances(t, opens, closes) ==
    LET from == FirstDelimiter(t) IN
    /\ from # 0
    /\ \A p \in (from + 1)..Len(t) : Depth(t, from, p, opens, closes) # 0

OwnOpen(t) == {t[FirstDelimiter(t)]}
OwnClose(t) == {CloseCharOf(t[FirstDelimiter(t)])}

IsSubstringOf(r, t) ==
    \E i \in 1..(Len(t) + 1) : i + Len(r) - 1 <= Len(t) /\ SubSeq(t, i, i + Len(r) - 1) = r

\* the spans <<first, last>> of text that are well-formed JSON objects or arrays
ContainerSpans(t) ==
    {sp \in (1..Len(t)) \X (1..Len(t)) :
        /\ sp[1] < sp[2]
        /\ t[sp[1]] \in OpenDelimiters
        /\ t[sp[2]] \in CloseDelimiters
        /\ IsJsonContainer(SubSeq(t, sp[1], sp[2]))}

\* those that are not part of a larger one
OutermostSpans(t) ==
    LET spans == ContainerSpans(t) IN
    {sp \in spans : ~\E o \in spans : o # sp /\ o[1] <= sp[1] /\ sp[2] <= o[2]}

ContainsOneJson(t) == Cardinality(OutermostSpans(t)) = 1
EmbeddedSpan(t) == CHOOSE sp \in OutermostSpans(t) : TRUE
EmbeddedJson(t) == SubSeq(t, EmbeddedSpan(t)[1], EmbeddedSpan(t)[2])

NoDelimiterBefore(t, p) == \A k \in 1..(p - 1) : t[k] \notin OpenDelimiters

Called == result.kind # "notCalled"

ReturnsEmbeddedValue ==
    /\ result.kind = "returned"
    /\ IsSubstringOf(result.value, text)
    /\ JsonParse(result.value).ok
    /\ JsonParse(result.value).val = JsonParse(EmbeddedJson(text)).val

IsJsonObject(t) == JsonParse(t).ok /\ JsonParse(t).val.type = "object" /\ t[1] = "{"

\* a delimiter inside a quoted string of t, and an escaped quote inside one
HasDelimiterInString(t) ==
    \E p \in 2..Len(t) :
        t[p] \in OpenDelimiters \cup CloseDelimiters /\ InsideString(t, 1, p)
HasEscapedQuote(t) ==
    \E p \in 2..Len(t) : t[p] = "\"" /\ Escaped(t, 1, p) /\ InsideString(t, 1, p)

\* C3: a text that is one JSON object whose strings hold delimiters or
\* escaped quotes is returned whole and unchanged.
C3_StringContentIgnored ==
    (Called /\ IsJsonObject(text) /\ (HasDelimiterInString(text) \/ HasEscapedQuote(text)))
        => result = Returned(text)

\* C3's case: an object whose string value holds an escaped quote followed by
\* the closing brace
C3_Witness ==
    /\ IsJsonObject(text)
    /\ HasEscapedQuote(text)
    /\ \E p \in 2..Len(text) : text[p] = "}" /\ InsideString(text, 1, p)
    /\ result = Returned(text)

\* C21: a text that holds neither "{" nor "[" makes extractJson throw the
\* no-JSON error, not the incomplete-JSON error, and return nothing.
C21_NoDelimiterIsNoJson ==
    (Called /\ FirstDelimiter(text) = 0) =>
        /\ result = Threw(NoJsonError)
        /\ result.kind # "returned"
        /\ result.error # IncompleteJsonError

\* C21's case: a text of closing delimiters, quotes or backslashes only
C21_Witness ==
    /\ result = Threw(NoJsonError)
    /\ Len(text) = MaxLen
    /\ \E k \in 1..Len(text) : text[k] \in CloseDelimiters
    /\ \E k \in 1..Len(text) : text[k] \in {"\"", "\\"}

\* the depth at position p when every delimiter outside a quoted string
\* counts, whether a backslash stands before it or not
DepthOutsideStrings(t, from, p, opens, closes) ==
    1 + Cardinality({q \in (from + 1)..p : ~InsideString(t, from, q) /\ t[q] \in opens})
      - Cardinality({q \in (from + 1)..p : ~InsideString(t, from, q) /\ t[q] \in closes})

\* position p is the first after from at which the depth is zero
FirstZeroDepthOutsideStrings(t, from, p) ==
    /\ DepthOutsideStrings(t, from, p, OwnOpen(t), OwnClose(t)) = 0
    /\ \A q \in (from + 1)..(p - 1) :
          DepthOutsideStrings(t, from, q, OwnOpen(t), OwnClose(t)) # 0
FirstZeroDepth(t, from, p) ==
    /\ Depth(t, from, p, OwnOpen(t), OwnClose(t)) = 0
    /\ \A q \in (from + 1)..(p - 1) : Depth(t, from, q, OwnOpen(t), OwnClose(t)) # 0

IsPrefix(a, b) == Len(a) <= Len(b) /\ SubSeq(b, 1, Len(a)) = a
Range(seq) == {seq[k] : k \in 1..Len(seq)}
IdeaNames == {i.ideaName : i \in Ideas}
SelectedNames == {i.ideaName : i \in Range(selectedIdeas)}

\* C4: when the last of the analyzeProduct calls resolves, whatever the order
\* in which they did, step becomes ANALYZED and analyses holds one result per
\* valid product name, the i-th being the response of the i-th call (as it
\* was held at position i while the others were pending) with the i-th valid
\* name as its productName.
C4_AnalysesInInputOrder ==
    [][(step = ANALYZING /\ step' = ANALYZED) =>
        LET validProducts == ValidProducts(products)
            results == Val(analyses')
        IN  /\ ~IsNull(analyses')
            /\ Len(validProducts) >= MinProducts
            /\ Len(results) = Len(validProducts)
            /\ \A i \in 1..Len(results) :
                  /\ results[i].productName = validProducts[i]
                  /\ results[i].body = i
                  /\ Settled(calls[i]) => results[i] = Val(calls[i].value)]_vars

\* C4's case: three names were analyzed
C4_Witness ==
    /\ step = ANALYZED
    /\ Len(Val(analyses)) = MaxProducts
    /\ \A i \in 1..MaxProducts : Val(analyses)[i] = [productName |-> <<"b">>, body |-> i]

\* C5: starting an analysis leaves analyses alone, and when a call of the
\* batch rejects (step leaves ANALYZING without reaching ANALYZED) step is
\* INITIAL again, the error is set and analyses is what it was: null, and
\* not the results of the calls that had resolved.
C5_RejectedBatchReverts ==
    [][/\ step' = ANALYZING => analyses' = analyses
       /\ (step = ANALYZING /\ step' \notin {ANALYZING, ANALYZED}) =>
             /\ step' = INITIAL
             /\ ~IsNull(error')
             /\ analyses' = analyses
             /\ IsNull(analyses')]_vars

\* C5's case: one of three calls has rejected
C5_Witness ==
    /\ step = INITIAL
    /\ error = Some(AnalyzeFailedMessage(<<"b">>))
    /\ Len(ValidProducts(products)) = MaxProducts
    /\ IsNull(analyses)

\* C6: while more ideas are generated the accumulated list only grows at its
\* end, and a successful generateMoreIdeas leaves the old list followed by the
\* new batch: the count is the old count plus the batch's.
C6_MoreIdeasAppend ==
    [][(step = GENERATING_IDEAS /\ ~IsNull(allIdeas)) =>
        /\ ~IsNull(allIdeas')
        /\ IsPrefix(Val(allIdeas), Val(allIdeas'))
        /\ (step' = IDEAS_GENERATED /\ IsNull(error')) =>
              /\ Val(allIdeas') = Val(allIdeas) \o Val(local.ideas)
              /\ Len(Val(allIdeas')) = Len(Val(allIdeas)) + Len(Val(local.ideas))
              /\ Len(Val(local.ideas)) > 0]_vars

\* C6's case: two calls of generateMoreIdeas have succeeded after the first batch
C6_Witness ==
    /\ step = IDEAS_GENERATED
    /\ thinkingProcess = Some(Paraphrased(3))
    /\ Len(Val(allIdeas)) = 3

\* C7: when an idea whose blueprint is displayed is deselected, its blueprint
\* is no longer displayed.
C7_DeselectRemovesBlueprint ==
    [][\A n \in IdeaNames :
        (n \in SelectedNames /\ n \notin SelectedNames' /\ n \in DisplayedBlueprints)
            => n \notin DisplayedBlueprints']_vars

\* C8: the calls generateBlueprint issues are for selected ideas, none of
\* which has a blueprint in the map at that time.
C8_NoCallForBlueprintedIdea ==
    [][(pc # "blueprints" /\ pc' = "blueprints") =>
        \A i \in 1..Len(calls') :
            /\ calls'[i].arg \in Range(selectedIdeas)
            /\ calls'[i].arg.ideaName \notin DOMAIN blueprints]_vars

\* C8's case: blueprint calls for two selected ideas are in flight
C8_Witness ==
    /\ pc = "blueprints"
    /\ Len(calls) = 2
    /\ \A i \in 1..2 : calls[i].arg.ideaName \notin DOMAIN blueprints

\* C9: generateBlueprint starts from IDEAS_GENERATED with a call per selected
\* idea; when its calls have settled, either all resolved, every result is in
\* the map under its idea's name and step is BLUEPRINT_GENERATED, or one
\* rejected, the map is unchanged and step is IDEAS_GENERATED.
C9_BlueprintBatchAllOrNothing ==
    [][/\ (pc # "blueprints" /\ pc' = "blueprints") =>
             /\ step = IDEAS_GENERATED /\ step' = GENERATING_BLUEPRINT
             /\ Len(selectedIdeas) >= 1
             /\ calls' = [i \in 1..Len(selectedIdeas) |-> Pending(selectedIdeas[i])]
       /\ (pc = "blueprints" /\ pc' # "blueprints") =>
             \/ /\ step' = BLUEPRINT_GENERATED
                /\ \A i \in 1..Len(calls) :
                      /\ calls[i].arg.ideaName \in DOMAIN blueprints'
                      /\ blueprints'[calls[i].arg.ideaName] = BlueprintFor(calls[i].arg)
             \/ /\ step' = IDEAS_GENERATED
                /\ blueprints' = blueprints]_vars

\* C10: no exception leaves a stage handler, and step is an in-flight step
\* only while a stage handler awaits its model calls.
C10_NoStageLeftInFlight ==
    /\ ~uncaught
    /\ IsLoading(step) => pc # "idle"

(***************************************************************************)
(* One stage action from its model call to its end: the response text (or  *)
(* the transport failure) of the call goes through the service function of *)
(* src/services/geminiService.ts and its outcome through the handler of    *)
(* src/App.tsx.                                                            *)
(***************************************************************************)

\* field names of src/types.ts: the first two fields a response has to bring
\* of AnalysisResult (productName is the caller's), of IdeaGenerationResult
\* and of Blueprint stand for all of them
StrengthsKey == <<"s", "t", "r", "e", "n", "g", "t", "h", "s">>
FlawsKey == <<"f", "l", "a", "w", "s">>
ThinkingProcessKey == <<"t", "h", "i", "n", "k", "i", "n", "g", "P", "r", "o", "c", "e", "s", "s">>
IdeasKey == <<"i", "d", "e", "a", "s">>
KeyFeaturesKey == <<"k", "e", "y", "F", "e", "a", "t", "u", "r", "e", "s">>
TargetAudienceKey == <<"t", "a", "r", "g", "e", "t", "A", "u", "d", "i", "e", "n", "c", "e">>

AnalysisResultFields == <<StrengthsKey, FlawsKey>>
IdeaGenerationResultFields == <<ThinkingProcessKey, IdeasKey>>
BlueprintFields == <<KeyFeaturesKey, TargetAudienceKey>>

\* the stages, named by the await their handler is suspended at
Stages == {"analyze", "ideas:ideation", "more:ideation", "blueprints"}

RequiredFields(stage) ==
    IF stage = "analyze" THEN AnalysisResultFields
    ELSE IF stage = "blueprints" THEN BlueprintFields
    ELSE IdeaGenerationResultFields

\* the JSON text of a field: the ideas are an array, every other value is 1
FieldText(key) ==
    Quoted(key) \o <<":">> \o (IF key = IdeasKey THEN <<"[", "1", "]">> ELSE <<"1">>)

RECURSIVE MembersText(_)
MembersText(fields) ==
    IF fields = <<>> THEN <<>>
    ELSE IF Len(fields) = 1 THEN FieldText(fields[1])
    ELSE FieldText(fields[1]) \o <<",">> \o MembersText(Tail(fields))

ObjectText(fields) == <<"{">> \o MembersText(fields) \o <<"}">>

\* the result type in full; with its first or its last field left out, with
\* no field at all, and an array in its place
CompleteText(stage) == ObjectText(RequiredFields(stage))
LackingTexts(stage) ==
    { ObjectText(Tail(RequiredFields(stage))),
      ObjectText(<<Head(RequiredFields(stage))>>),
      <<"{", "}">>,
      <<"[", "1", "]">> }

\* no JSON, JSON that does not end, and balanced text that is no JSON
UndecodableTexts(stage) ==
    { <<>>,
      <<"o", "k">>,
      SubSeq(CompleteText(stage), 1, Len(CompleteText(stage)) - 1),
      <<"{", "a", "}">>,
      <<"[", "1", ",", "]">> }

\* the prose and the fence a model puts around its JSON
ResponseContexts ==
    { <<<<>>, <<>>>>,
      <<<<"o", "k", " ">>, <<" ", "a">>>>,
      <<<<"~", "~", "~">>, <<"~", "~", "~">>>> }

\* the response texts of the model call of a stage
Responses(stage) ==
    {c[1] \o j \o c[2] :
        c \in ResponseContexts,
        j \in {CompleteText(stage)} \cup LackingTexts(stage) \cup UndecodableTexts(stage)}

\* what the model call comes back with
Response(t) == [kind |-> "response", text |-> t, err |-> Nullish]
Failure(err) == [kind |-> "failure", text |-> <<>>, err |-> err]
Outcomes(t) == {Response(t)} \cup {Failure(err) : err \in Rejections}

\* what a service function settles to
Resolved(v) == [kind |-> "resolved", value |-> v, err |-> Nullish]
Rejected(err) == [kind |-> "rejected", value |-> NoValue, err |-> err]

\* the message of the SyntaxError of JSON.parse
SyntaxErrorMessage == <<"Unexpected token in JSON", <<>>>>

\* geminiService.ts:405-406, 515-516: extractJson(response.text), JSON.parse
ExtractAndParse(t) ==
    LET jsonText == extractJson(t) IN
    IF jsonText.kind = "threw" THEN Rejected(ErrorObject(<<jsonText.error, <<>>>>))
    ELSE LET parsed == JsonParse(jsonText.value) IN
         IF parsed.ok THEN Resolved(parsed.val) ELSE Rejected(ErrorObject(SyntaxErrorMessage))

\* geminiService.ts:355-407: nothing is caught
generateHybridIdeas(outcome) ==
    IF outcome.kind = "failure" THEN Rejected(outcome.err) ELSE ExtractAndParse(outcome.text)

\* geminiService.ts:409-517: nothing is caught
generateBlueprint(outcome) ==
    IF outcome.kind = "failure" THEN Rejected(outcome.err) ELSE ExtractAndParse(outcome.text)

\* geminiService.ts:323-353: whatever is thrown is caught and replaced
analyzeProduct(productName, outcome) ==
    LET attempt == IF outcome.kind = "failure" THEN Rejected(outcome.err)
                   ELSE ExtractAndParse(outcome.text)
    IN  IF attempt.kind = "rejected"
        THEN Rejected(ErrorObject(AnalyzeFailedMessage(productName)))
        ELSE Resolved(MergeProductName(ParsedAnalysis(attempt.value, <<>>), productName))

\* the member of a parsed object
Field(v, key) == (CHOOSE m \in v.members : m[1] = key)[2]

\* App.tsx:207, 252: the ideas of the destructured result, undefined when the
\* result has no such property
IdeasOf(v) ==
    IF \E m \in v.members : m[1] = IdeasKey
    THEN Some(Field(v, IdeasKey).items)
    ELSE Undefined

\* the parsed value has the fields of the result type
HasFields(v, fields) ==
    /\ v.type = "object"
    /\ \A k \in 1..Len(fields) : \E m \in v.members : m[1] = fields[k]

\* what the call did: the stage, how the model call came back, and what the
\* service function settled to
Settlement(stage, arg, outcome, settled) ==
    [kind |-> "settled", stage |-> stage, arg |-> arg, via |-> outcome.kind,
     settled |-> settled]

\* the states in which the stages await their model calls
TwoAnalyses ==
    <<MergeProductName(ParsedAnalysis(1, <<"b">>), <<"b">>),
      MergeProductName(ParsedAnalysis(2, <<"b">>), <<"b">>)>>
FirstIdea == [ideaName |-> "Aero", whatItIs |-> "drone"]

AnalyzeInFlight ==
    /\ products = <<<<" ", "b">>, <<" ", "b">>>>
    /\ analyses = Null
    /\ allIdeas = Null
    /\ thinkingProcess = Null
    /\ selectedIdeas = <<>>
    /\ blueprints = EmptyMap
    /\ step = ANALYZING
    /\ error = Null
    /\ pc = "analyze"
    /\ calls = <<Pending(<<"b">>), Pending(<<"b">>)>>
    /\ local = NoLocal
    /\ uncaught = FALSE

IdeasInFlight ==
    /\ products = <<<<" ", "b">>, <<" ", "b">>>>
    /\ analyses = Some(TwoAnalyses)
    /\ allIdeas = Null
    /\ thinkingProcess = Null
    /\ selectedIdeas = <<>>
    /\ blueprints = EmptyMap
    /\ step = GENERATING_IDEAS
    /\ error = Null
    /\ pc = "ideas:ideation"
    /\ calls = <<>>
    /\ local = NoLocal
    /\ uncaught = FALSE

MoreInFlight ==
    /\ products = <<<<" ", "b">>, <<" ", "b">>>>
    /\ analyses = Some(TwoAnalyses)
    /\ allIdeas = Some(<<FirstIdea>>)
    /\ thinkingProcess = Some(Paraphrased(1))
    /\ selectedIdeas = <<>>
    /\ blueprints = EmptyMap
    /\ step = GENERATING_IDEAS
    /\ error = Null
    /\ pc = "more:ideation"
    /\ calls = <<>>
    /\ local = [NoLocal EXCEPT !.previousStep = IDEAS_GENERATED,
                               !.thinkingProcess = Some(Paraphrased(1))]
    /\ uncaught = FALSE

BlueprintsInFlight ==
    /\ products = <<<<" ", "b">>, <<" ", "b">>>>
    /\ analyses = Some(TwoAnalyses)
    /\ allIdeas = Some(<<FirstIdea>>)
    /\ thinkingProcess = Some(Paraphrased(1))
    /\ selectedIdeas = <<FirstIdea>>
    /\ blueprints = EmptyMap
    /\ step = GENERATING_BLUEPRINT
    /\ error = Null
    /\ pc = "blueprints"
    /\ calls = <<Pending(FirstIdea)>>
    /\ local = NoLocal
    /\ uncaught = FALSE

InitDecode ==
    /\ \/ AnalyzeInFlight
       \/ IdeasInFlight
       \/ MoreInFlight
       \/ BlueprintsInFlight
    /\ text \in Responses(pc)
    /\ result = NotCalled

\* the model call of analyzeProduct number i comes back
AnalyzeCallSettles(i, outcome) ==
    /\ pc = "analyze"
    /\ i \in 1..Len(calls)
    /\ LET settled == analyzeProduct(calls[i].arg, outcome) IN
       /\ IF settled.kind = "resolved"
          THEN AnalyzeResolvesWith(i, settled.value)
          ELSE AnalyzeRejectsWith(i, settled.err)
       /\ result' = Settlement(pc, calls[i].arg, outcome, settled)
    /\ UNCHANGED text

\* the model call of generateHybridIdeas comes back
IdeationCallSettles(outcome) ==
    /\ pc \in {"ideas:ideation", "more:ideation"}
    /\ LET settled == generateHybridIdeas(outcome) IN
       /\ IF settled.kind = "resolved"
          THEN IdeationResolves(IdeasOf(settled.value))
          ELSE IdeasCallRejects(settled.err)
       /\ result' = Settlement(pc, <<>>, outcome, settled)
    /\ UNCHANGED text

\* the call of paraphraseText rejects
ParaphraseRejects(err) ==
    /\ pc \in {"ideas:paraphrase", "more:paraphrase"}
    /\ IdeasCallRejects(err)

\* the model call of generateBlueprint number i comes back
BlueprintCallSettles(i, outcome) ==
    /\ pc = "blueprints"
    /\ i \in 1..Len(calls)
    /\ LET settled == generateBlueprint(outcome) IN
       /\ IF settled.kind = "resolved"
          THEN BlueprintResolvesWith(i, settled.value)
          ELSE BlueprintRejects(i, settled.err)
       /\ result' = Settlement(pc, calls[i].arg, outcome, settled)
    /\ UNCHANGED text

NextDecode ==
    \/ \E i \in 1..MinProducts, outcome \in Outcomes(text) : AnalyzeCallSettles(i, outcome)
    \/ \E outcome \in Outcomes(text) : IdeationCallSettles(outcome)
    \/ ParaphraseResolves /\ UNCHANGED extractVars
    \/ \E err \in Rejections : ParaphraseRejects(err) /\ UNCHANGED extractVars
    \/ \E outcome \in Outcomes(text) : BlueprintCallSettles(1, outcome)

SpecDecode == InitDecode /\ [][NextDecode]_vars

(***************************************************************************)
(* The claims about decoding a response.                                   *)
(***************************************************************************)

\* the stable step a stage goes back to when it fails
RevertStep(stage) ==
    IF stage = "analyze" THEN INITIAL
    ELSE IF stage = "ideas:ideation" THEN ANALYZED
    ELSE IDEAS_GENERATED

\* the results are what they were when the stage started
NothingStored(stage) ==
    IF stage = "analyze" THEN IsNull(analyses)
    ELSE IF stage = "ideas:ideation" THEN IsNull(allIdeas)
    ELSE IF stage = "more:ideation" THEN allIdeas = Some(<<FirstIdea>>)
    ELSE DOMAIN blueprints = {}

\* the stage has ended and its model call had come back with the response text
EndedOnResponse ==
    /\ pc = "idle"
    /\ result.kind = "settled"
    /\ result.via = "response"

\* JSON is extracted from t and parsed, but fields of the result type are missing
LacksRequiredFields(stage, t) ==
    LET decoded == ExtractAndParse(t) IN
    decoded.kind = "resolved" /\ ~HasFields(decoded.value, RequiredFields(stage))

\* C11: after a stage whose response decodes to a value that lacks required
\* fields, the error is set, nothing is stored and step is reverted.
C11_LackingFieldsIsDecodeError ==
    (EndedOnResponse /\ LacksRequiredFields(result.stage, text)) =>
        /\ ~IsNull(error)
        /\ NothingStored(result.stage)
        /\ step = RevertStep(result.stage)

\* what the service function of a stage settles to
ServiceOn(stage, arg, outcome) ==
    IF stage = "analyze" THEN analyzeProduct(arg, outcome)
    ELSE IF stage = "blueprints" THEN generateBlueprint(outcome)
    ELSE generateHybridIdeas(outcome)

\* the messages a stage shows after a transport failure
TransportFailureMessages(stage, arg) ==
    {(IF stage = "blueprints"
      THEN BlueprintCatchMessage(ServiceOn(stage, arg, Failure(err)).err)
      ELSE CatchMessage(ServiceOn(stage, arg, Failure(err)).err)) :
        err \in {e \in Rejections : ~(stage = "blueprints" /\ BlueprintCatchThrows(e))}}

\* C12: after a stage whose response cannot be decoded (no JSON, incomplete
\* JSON, unparseable JSON) step is reverted as after a transport failure and
\* the error is a message the stage shows after a transport failure.
C12_DecodeFailureAsTransportFailure ==
    (EndedOnResponse /\ ExtractAndParse(text).kind = "rejected") =>
        /\ step = RevertStep(result.stage)
        /\ NothingStored(result.stage)
        /\ \E m \in TransportFailureMessages(result.stage, result.arg) : error = Some(m)

\* C13: a Start Over (the only way to INITIAL from a step other than
\* ANALYZING) from whatever step leaves analyses, the idea list and the
\* thinking-process log null, the selection and the blueprints empty, no
\* error and two empty product inputs.
C13_StartOverResets ==
    [][(step \notin {INITIAL, ANALYZING} /\ step' = INITIAL) =>
        /\ IsNull(analyses')
        /\ IsNull(allIdeas')
        /\ IsNull(thinkingProcess')
        /\ selectedIdeas' = <<>>
        /\ DOMAIN blueprints' = {}
        /\ IsNull(error')
        /\ products' = <<<<>>, <<>>>>]_vars

\* C13's case: Start Over is offered with analyses, ideas, a selection and
\* blueprints accumulated
C13_Witness ==
    /\ StartOverEnabled
    /\ step = BLUEPRINT_GENERATED
    /\ ~IsNull(analyses) /\ ~IsNull(allIdeas) /\ ~IsNull(thinkingProcess)
    /\ Len(selectedIdeas) = 2
    /\ Cardinality(DOMAIN blueprints) = 2

\* C14: generateIdeas starts at ANALYZED and moves step to GENERATING_IDEAS;
\* when it ends, either step is IDEAS_GENERATED with the returned ideas and a
\* log stored and no error, or step is ANALYZED again with the error set and
\* the idea list and the log as they were.
C14_GenerateIdeasTransitions ==
    [][/\ (pc = "idle" /\ pc' = "ideas:ideation") =>
             step = ANALYZED /\ step' = GENERATING_IDEAS /\ allIdeas' = allIdeas
       /\ (pc \in {"ideas:ideation", "ideas:paraphrase"} /\ pc' = "idle") =>
             \/ /\ pc = "ideas:paraphrase"
                /\ step' = IDEAS_GENERATED
                /\ ~IsNull(local.ideas)
                /\ allIdeas' = Some(Val(local.ideas))
                /\ ~IsNull(thinkingProcess')
                /\ IsNull(error')
             \/ /\ step' = ANALYZED
                /\ ~IsNull(error')
                /\ allIdeas' = allIdeas
                /\ thinkingProcess' = thinkingProcess]_vars

\* C14's case: a generateIdeas has failed with a value that is no Error
C14_Witness ==
    /\ step = ANALYZED
    /\ pc = "idle"
    /\ error = Some(UnknownErrorMessage)
    /\ IsNull(allIdeas)

StageStarts == pc = "idle" /\ pc' # "idle"
StageEnds == pc # "idle" /\ pc' = "idle"
StageSucceeds ==
    /\ StageEnds
    /\ \/ pc = "analyze" /\ step' = ANALYZED
       \/ pc \in {"ideas:paraphrase", "more:paraphrase"} /\ thinkingProcess' # thinkingProcess
       \/ pc = "blueprints" /\ step' = BLUEPRINT_GENERATED

\* C16: a stage action that starts clears the error, one that fails sets it,
\* and a step that neither starts nor ends a stage nor starts over leaves the
\* error as it is.
C16_ErrorIsLastFailure ==
    [][/\ StageStarts => IsNull(error')
       /\ (StageEnds /\ ~StageSucceeds) => ~IsNull(error')
       /\ (pc' = pc /\ step' = step) => error' = error]_vars

(***************************************************************************)
(* handleAnalyzeProducts called on whatever the product inputs hold, the   *)
(* button's own check of the inputs (App.tsx:548) left aside.              *)
(***************************************************************************)

\* what the user types into a product input: nothing, a space, or a name
TypedInputs == {<<>>, <<" ">>, <<" ", "b">>, <<"c">>}

\* the last thing that happened was a call of handleAnalyzeProducts on names
AnalyzeInvoked(names) == [kind |-> "analyzeInvoked", value |-> names, error |-> ""]

InitValidate ==
    /\ InitApp
    /\ text = <<>>
    /\ result = NotCalled

CallHandleAnalyzeProducts ==
    /\ ProductFormEnabled
    /\ AnalyzeProductsInvoked
    /\ result' = AnalyzeInvoked(ValidProducts(products))
    /\ UNCHANGED text

NextValidate ==
    \/ handleAddProduct /\ result' = NotCalled /\ UNCHANGED text
    \/ \E index \in 1..MaxProducts :
          index <= Len(products) /\ handleRemoveProduct(index)
            /\ result' = NotCalled /\ UNCHANGED text
    \/ \E index \in 1..MaxProducts, value \in TypedInputs :
          index <= Len(products) /\ handleProductChange(index, value)
            /\ result' = NotCalled /\ UNCHANGED text
    \/ CallHandleAnalyzeProducts
    \/ \E i \in 1..MaxProducts, name \in ResponseNames :
          AnalyzeResolves(i, name) /\ result' = NotCalled /\ UNCHANGED text
    \/ \E i \in 1..MaxProducts : AnalyzeRejects(i) /\ result' = NotCalled /\ UNCHANGED text

SpecValidate == InitValidate /\ [][NextValidate]_vars

\* C17: a call of handleAnalyzeProducts on fewer than two names that are
\* non-empty after trimming sets the validation error, starts no model call
\* and leaves step, analyses, ideas, selection and blueprints as they were.
C17_TooFewNamesRejected ==
    [][(result'.kind = "analyzeInvoked" /\ Len(ValidProducts(products)) < MinProducts) =>
        /\ error' = Some(ValidationMessage)
        /\ pc' = "idle" /\ calls' = calls /\ calls' = <<>>
        /\ step' = step
        /\ analyses' = analyses
        /\ allIdeas' = allIdeas
        /\ selectedIdeas' = selectedIdeas
        /\ blueprints' = blueprints]_vars

\* C17's case: the handler was called on three inputs of which one holds a name
C17_Witness ==
    /\ result = AnalyzeInvoked(<<<<"c">>>>)
    /\ Len(products) = MaxProducts
    /\ error = Some(ValidationMessage)
    /\ step = INITIAL

\* C18: the analyzeProduct calls of one analyze action are for pairwise
\* distinct names, and so are the stored analyses.
C18_OneAnalysisPerName ==
    /\ pc = "analyze" =>
          \A i, j \in 1..Len(calls) : calls[i].arg = calls[j].arg => i = j
    /\ ~IsNull(analyses) =>
          \A i, j \in 1..Len(Val(analyses)) :
              Val(analyses)[i].productName = Val(analyses)[j].productName => i = j

\* C19: the accumulated ideas have pairwise distinct names.
C19_IdeaNamesDistinct ==
    ~IsNull(allIdeas) =>
        \A i, j \in 1..Len(Val(allIdeas)) :
            Val(allIdeas)[i].ideaName = Val(allIdeas)[j].ideaName => i = j

\* C20: when the blueprints are displayed, every selected idea has its
\* blueprint in the map, under its name.
C20_BlueprintPerSelectedIdea ==
    step = BLUEPRINT_GENERATED =>
        \A k \in 1..Len(selectedIdeas) :
            /\ selectedIdeas[k].ideaName \in DOMAIN blueprints
            /\ blueprints[selectedIdeas[k].ideaName] = BlueprintFor(selectedIdeas[k])

\* the selection after a click on the card of idea, as the claim words it
ToggledByName(idea) ==
    IF \A k \in 1..Len(selectedIdeas) : selectedIdeas[k].ideaName # idea.ideaName
    THEN selectedIdeas' = Append(selectedIdeas, idea)
    ELSE /\ selectedIdeas' = SelectSeq(selectedIdeas, LAMBDA i : i.ideaName # idea.ideaName)
         /\ Len(selectedIdeas') = Len(selectedIdeas) - 1

\* C23: the selection changes only by a Start Over or by a toggle, and a
\* toggle of an idea adds it when no selected idea has its name, removes the
\* selected idea of that name otherwise, issues no model call and leaves
\* step, analyses, the idea list, the log and the error as they were.
C23_ToggleIsPureUpdate ==
    [][selectedIdeas' # selectedIdeas =>
        \/ step' = INITIAL /\ step # INITIAL /\ selectedIdeas' = <<>> /\ IsNull(allIdeas')
        \/ /\ ~IsNull(allIdeas)
           /\ \E idea \in Range(Val(allIdeas)) : ToggledByName(idea)
           /\ pc' = pc /\ calls' = calls
           /\ step' = step
           /\ analyses' = analyses
           /\ allIdeas' = allIdeas
           /\ thinkingProcess' = thinkingProcess
           /\ error' = error]_vars

\* C23's case: two ideas are selected in the reverse of the order of their
\* cards, no call is in flight and there is no error
C23_Witness ==
    /\ step = IDEAS_GENERATED
    /\ pc = "idle" /\ calls = <<>>
    /\ IsNull(error)
    /\ Len(selectedIdeas) = 2
    /\ \E a, b \in 1..Len(Val(allIdeas)) :
          a < b /\ selectedIdeas[1] = Val(allIdeas)[b] /\ selectedIdeas[2] = Val(allIdeas)[a]

\* what the calls of a batch were issued for
CallArgs(cs) == [i \in 1..Len(cs) |-> cs[i].arg]

\* C24: while a stage action runs, the calls it awaits are the ones it issued
\* (a settled call is not issued again, the ideation call is followed by the
\* paraphrase call and by nothing else); when it ends, by failure too, no call
\* is left or issued; and a call is issued from rest only by a click on the
\* enabled button of a stage.
C24_NoAutomaticRetry ==
    [][/\ (pc # "idle" /\ pc' # "idle") =>
             \/ /\ pc' = pc
                /\ CallArgs(calls') = CallArgs(calls)
                /\ \A i \in 1..Len(calls) : Settled(calls[i]) => calls'[i] = calls[i]
             \/ pc = "ideas:ideation" /\ pc' = "ideas:paraphrase" /\ calls' = calls
             \/ pc = "more:ideation" /\ pc' = "more:paraphrase" /\ calls' = calls
       /\ (pc # "idle" /\ pc' = "idle") => calls' = <<>>
       /\ (pc = "idle" /\ pc' # "idle") =>
             \/ pc' = "analyze" /\ AnalyzeEnabled
             \/ pc' = "ideas:ideation" /\ GenerateIdeasEnabled
             \/ pc' = "more:ideation" /\ IdeasFooterRendered /\ ~IsLoading(step)
             \/ pc' = "blueprints" /\ GenerateBlueprintsEnabled]_vars

\* C24's case: a blueprint batch has failed, and no call is in flight
C24_Witness ==
    /\ error = Some(BlueprintFailedMessage)
    /\ step = IDEAS_GENERATED
    /\ pc = "idle"
    /\ calls = <<>>
    /\ Len(selectedIdeas) = 2

InFlightSteps == {ANALYZING, GENERATING_IDEAS, GENERATING_BLUEPRINT}

\* the in-flight step of the stage whose handler is suspended at the await
InFlightStepOf(await) ==
    IF await = "analyze" THEN ANALYZING
    ELSE IF await = "blueprints" THEN GENERATING_BLUEPRINT
    ELSE GENERATING_IDEAS

\* no button that triggers a stage action or a start-over can be clicked
NoTriggerOffered ==
    /\ ~AnalyzeEnabled
    /\ ~GenerateIdeasEnabled
    /\ ~(IdeasFooterRendered /\ ~IsLoading(step))
    /\ ~GenerateBlueprintsEnabled
    /\ ~StartOverEnabled

\* C25: at an in-flight step no stage action and no start-over can be
\* triggered; a stage handler is suspended only at its own in-flight step and
\* none is started there; and step leaves an in-flight step only when the
\* handler that entered it ends.
C25_NoTriggerWhileInFlight ==
    [][/\ step \in InFlightSteps => NoTriggerOffered
       /\ step' \in InFlightSteps => NoTriggerOffered'
       /\ pc # "idle" => step = InFlightStepOf(pc)
       /\ (pc = "idle" /\ pc' # "idle") => step \notin InFlightSteps
       /\ (step \in InFlightSteps /\ step' # step) =>
             /\ pc # "idle" /\ pc' = "idle"
             /\ step = InFlightStepOf(pc)
             /\ step' \notin InFlightSteps]_vars

\* C25's case: more ideas are being generated while the idea cards are shown
\* with one of them selected
C25_Witness ==
    /\ step = GENERATING_IDEAS
    /\ pc = "more:paraphrase"
    /\ IdeasRendered
    /\ Len(selectedIdeas) = 1
    /\ NoTriggerOffered

\* C26: the calls of a blueprint batch are issued for the ideas selected when
\* Generate Blueprints is clicked, stay the same while they are in flight
\* whatever is toggled meanwhile, and on success the keys of the map are the
\* names of exactly these ideas.
C26_SnapshotDecidesBatch ==
    [][/\ (pc # "blueprints" /\ pc' = "blueprints") =>
             /\ CallArgs(calls') = selectedIdeas
             /\ selectedIdeas' = selectedIdeas
       /\ (pc = "blueprints" /\ pc' = "blueprints") => CallArgs(calls') = CallArgs(calls)
       /\ (pc = "blueprints" /\ step' = BLUEPRINT_GENERATED) =>
             DOMAIN blueprints' = {calls[i].arg.ideaName : i \in 1..Len(calls)}]_vars

\* C26's case: while the calls for two ideas are in flight and one has
\* resolved, one of the two ideas has been deselected and another selected
C26_Witness ==
    /\ pc = "blueprints"
    /\ Len(calls) = 2
    /\ \E i \in 1..2 : Settled(calls[i])
    /\ \E i \in 1..2 : calls[i].arg \notin Range(selectedIdeas)
    /\ \E k \in 1..Len(selectedIdeas) : selectedIdeas[k] \notin Range(CallArgs(calls))

IdeationAwaits == {"ideas:ideation", "more:ideation"}
ParaphraseAwaits == {"ideas:paraphrase", "more:paraphrase"}

\* C27: the paraphrase call is awaited only once the ideation call of the
\* same action has resolved; until the action ends the idea list and the log
\* are what they were when it was triggered; and when the paraphrase call
\* rejects they still are, the error is set and step is the one the action
\* goes back to (ANALYZED for generateIdeas, IDEAS_GENERATED for
\* generateMoreIdeas).
C27_ParaphraseFailureDiscardsIdeas ==
    [][/\ (pc' \in ParaphraseAwaits /\ pc' # pc) =>
             /\ pc = (IF pc' = "ideas:paraphrase" THEN "ideas:ideation" ELSE "more:ideation")
             /\ result'.kind = "settled" /\ result'.settled.kind = "resolved"
       /\ (pc \in IdeationAwaits \cup ParaphraseAwaits /\ pc' # "idle") =>
             allIdeas' = allIdeas /\ thinkingProcess' = thinkingProcess
       /\ (pc \in ParaphraseAwaits /\ pc' = "idle" /\ ~IsNull(error')) =>
             /\ allIdeas' = allIdeas
             /\ thinkingProcess' = thinkingProcess
             /\ NothingStored(result.stage)'
             /\ step' = (IF pc = "ideas:paraphrase" THEN ANALYZED ELSE IDEAS_GENERATED)]_vars

\* C27's case: generateMoreIdeas has ended on a rejected paraphrase call after
\* its ideation call had resolved on a response
C27_Witness ==
    /\ pc = "idle"
    /\ result.kind = "settled"
    /\ result.stage = "more:ideation"
    /\ result.settled.kind = "resolved"
    /\ error = Some(TransportMessage)
    /\ allIdeas = Some(<<FirstIdea>>)
    /\ thinkingProcess = Some(Paraphrased(1))
    /\ step = IDEAS_GENERATED

\* C28: the blueprints map has entries only at step BLUEPRINT_GENERATED; the
\* only step BLUEPRINT_GENERATED changes to is INITIAL, with the map emptied;
\* and a blueprint batch starts from an empty map, which is the map its
\* handler copies.
C28_BlueprintsOnlyWhenGenerated ==
    [][/\ DOMAIN blueprints # {} => step = BLUEPRINT_GENERATED
       /\ DOMAIN blueprints' # {} => step' = BLUEPRINT_GENERATED
       /\ (step = BLUEPRINT_GENERATED /\ step' # step) =>
             step' = INITIAL /\ DOMAIN blueprints' = {}
       /\ (pc # "blueprints" /\ pc' = "blueprints") =>
             DOMAIN blueprints = {} /\ DOMAIN local'.blueprints = {}]_vars

\* C28's case: one blueprint is shown, its idea deselected since, and Start
\* Over is offered
C28_Witness ==
    /\ step = BLUEPRINT_GENERATED
    /\ Cardinality(DOMAIN blueprints) = 1
    /\ selectedIdeas = <<>>
    /\ StartOverEnabled

\* C29: the results of the completed stages are there: from ANALYZED on,
\* analyses is a list of at least two results and of no more than the form
\* has inputs for; at IDEAS_GENERATED, GENERATING_BLUEPRINT and
\* BLUEPRINT_GENERATED the idea list is not null; at BLUEPRINT_GENERATED the
\* blueprints map has an entry; and at INITIAL analyses and the idea list are
\* null and the map is empty.
C29_StageResultsPresent ==
    /\ step >= ANALYZED =>
          /\ ~IsNull(analyses)
          /\ Len(Val(analyses)) >= MinProducts /\ Len(Val(analyses)) <= MaxProducts
    /\ step \in {IDEAS_GENERATED, GENERATING_BLUEPRINT, BLUEPRINT_GENERATED} =>
          ~IsNull(allIdeas)
    /\ step = BLUEPRINT_GENERATED => Cardinality(DOMAIN blueprints) >= 1
    /\ step = INITIAL =>
          IsNull(analyses) /\ IsNull(allIdeas) /\ DOMAIN blueprints = {}

\* C30: no two selected ideas have the same name, every selected idea is in
\* the accumulated idea list, and nothing is selected while the list is null.
C30_SelectionWithinIdeas ==
    /\ \A i, j \in 1..Len(selectedIdeas) :
          selectedIdeas[i].ideaName = selectedIdeas[j].ideaName => i = j
    /\ IsNull(allIdeas) => selectedIdeas = <<>>
    /\ ~IsNull(allIdeas) => Range(selectedIdeas) \subseteq Range(Val(allIdeas))

\* C30's case: of three ideas, two of them of the same name, one of that name
\* and the third are selected
C30_Witness ==
    /\ ~IsNull(allIdeas)
    /\ Len(Val(allIdeas)) = 3
    /\ Cardinality({i.ideaName : i \in Range(Val(allIdeas))}) = 2
    /\ Cardinality(Range(Val(allIdeas))) = 3
    /\ Len(selectedIdeas) = 2

====
